---- MODULE Spec2Model ----
(***************************************************************************)
(* Automobile Sales Dashboard (Part2_dashboard.py).                        *)
(*                                                                         *)
(* The module-level code reads one CSV into the data frame df, cleans it   *)
(* and derives the list of years.  Two Dash callbacks then serve the two   *)
(* dropdowns: toggle_year_dropdown and update_charts.                      *)
(*                                                                         *)
(* Text is a sequence of ASCII codes, so that the orderings and the        *)
(* parsers of the code are computed and not assumed.  An empty CSV cell    *)
(* is the empty text; pandas reads it as NaN.  Numbers of the data are     *)
(* naturals; NA stands for NaN / pd.NA and None for Python's None.         *)
(***************************************************************************)
EXTENDS Integers, Sequences, FiniteSets

VARIABLES
    csv,            \* the file behind URL: [columns, rows] of text cells
    df,             \* module-level df after cleaning (lines 17-32)
    years,          \* module-level years (line 42)
    report_dd,      \* value of the dropdown "report-dd"
    year_dd,        \* value of the dropdown "year-dd"
    year_disabled,  \* property year-dd.disabled
    year_help,      \* property year-help.children
    figs,           \* figures of fig-1 .. fig-4, <<>> before the first render
    pending,        \* callbacks Dash has still to run for the last input change
    snap            \* history: one earlier result of update_charts, or <<>>

vars == <<csv, df, years, report_dd, year_dd, year_disabled, year_help,
          figs, pending, snap>>

----------------------------------------------------------------------------
(* Bounds and value domains                                                *)

MaxRows == 2

NA == -1
None == -2

\* ASCII texts used in the cells
T_0 == <<48>>
T_1 == <<49>>
T_2 == <<50>>
T_3 == <<51>>
T_5 == <<53>>
T_10 == <<49, 48>>
T_25 == <<50, 53>>
T_x == <<120>>
T_Jan == <<74, 97, 110>>
T_A == <<65>>
T_B == <<66>>
T_2019 == <<50, 48, 49, 57>>
T_2020 == <<50, 48, 50, 48>>
T_Unknown == <<85, 110, 107, 110, 111, 119, 110>>
T_nan == <<110, 97, 110>>
T_dot0 == <<46, 48>>
Empty == <<>>

OptionalColumns == {"Automobile_Sales", "Vehicle_Type",
                    "Advertising_Expenditure", "unemployment_rate"}

YEARLY == "Yearly Statistics"
RECESSION == "Recession Period Statistics"
ReportOptions == {YEARLY, RECESSION}

\* values the year input of the callbacks is driven with
YearInputs == {None, 2019, 2020}

----------------------------------------------------------------------------
(* Text, numbers, ordering                                                 *)

IsDigits(s) == Len(s) > 0 /\ \A i \in 1..Len(s) : s[i] \in 48..57

RECURSIVE DigitsValue(_)
DigitsValue(s) ==
    IF Len(s) = 0 THEN 0
    ELSE 10 * DigitsValue(SubSeq(s, 1, Len(s) - 1)) + (s[Len(s)] - 48)

\* pd.to_numeric(cell, errors="coerce"): a number, or NaN for anything else
to_numeric(s) == IF IsDigits(s) THEN DigitsValue(s) ELSE NA

\* str(n) of a natural
RECURSIVE IntToStr(_)
IntToStr(n) ==
    IF n < 10 THEN <<48 + n>> ELSE IntToStr(n \div 10) \o <<48 + (n % 10)>>

\* s < t for Python strings
RECURSIVE StrLess(_, _)
StrLess(s, t) ==
    IF Len(t) = 0 THEN FALSE
    ELSE IF Len(s) = 0 THEN TRUE
    ELSE IF s[1] # t[1] THEN s[1] < t[1]
    ELSE StrLess(Tail(s), Tail(t))

RECURSIVE SortInts(_)
SortInts(S) ==
    IF S = {} THEN <<>>
    ELSE LET m == CHOOSE x \in S : \A y \in S : x <= y
         IN  <<m>> \o SortInts(S \ {m})

RECURSIVE SortStrs(_)
SortStrs(S) ==
    IF S = {} THEN <<>>
    ELSE LET m == CHOOSE x \in S : \A y \in S \ {x} : StrLess(x, y)
         IN  <<m>> \o SortStrs(S \ {m})

RECURSIVE GCD(_, _)
GCD(a, b) == IF b = 0 THEN a ELSE GCD(b, a % b)

\* a float value num/den in lowest terms; 0/0 is NaN
Frac(num, den) ==
    IF den = 0 THEN [num |-> 0, den |-> 0]
    ELSE LET g == GCD(num, den)
         IN  [num |-> num \div g, den |-> den \div g]

\* the cells of a column that are not NaN
NotNa(rows, col) == SelectSeq(rows, LAMBDA r : r[col] # NA)

RECURSIVE SumOf(_, _)
SumOf(rows, col) ==
    IF Len(rows) = 0 THEN 0 ELSE rows[1][col] + SumOf(Tail(rows), col)

\* .sum(numeric_only=True) of one group: NaN cells are skipped
GroupSum(rows, col) == Frac(SumOf(NotNa(rows, col), col), 1)

\* mutant: the total of the group in place of its mean
GroupMean_total(rows, col) == Frac(SumOf(NotNa(rows, col), col), 1)

\* .mean(numeric_only=True) of one group: NaN cells are skipped
GroupMean(rows, col) ==
    Frac(SumOf(NotNa(rows, col), col), Len(NotNa(rows, col)))

----------------------------------------------------------------------------
(* 1) Data: load once and clean                                            *)

\* Month: read_csv makes the column int64 when every cell is a number, and
\* .astype(str) formats it back; otherwise the texts are kept as they are.
\* An empty cell among numbers makes the column float64 ("1.0", "nan");
\* an empty cell among texts is NaN and becomes "nan".
MonthColumn(rows) ==
    LET n == Len(rows)
    IN  IF \A i \in 1..n : IsDigits(rows[i].Month)
        THEN [i \in 1..n |-> IntToStr(DigitsValue(rows[i].Month))]
        ELSE IF \A i \in 1..n : IsDigits(rows[i].Month) \/ rows[i].Month = Empty
        THEN [i \in 1..n |->
                 IF rows[i].Month = Empty THEN T_nan
                 ELSE IntToStr(DigitsValue(rows[i].Month)) \o T_dot0]
        ELSE [i \in 1..n |->
                 IF rows[i].Month = Empty THEN T_nan ELSE rows[i].Month]

\* Recession: to_numeric(errors="coerce").fillna(0).astype(int)
RecessionCell(s) == LET v == to_numeric(s) IN IF v = NA THEN 0 ELSE v

\* a numeric cell of read_csv: the number, NaN when the cell is empty
NumCell(s) == to_numeric(s)

\* the loop of lines 25-32: a column is created only when it is missing
Fallback(c, col, cell, default) == IF col \in c.columns THEN cell ELSE default

LoadAndClean(c) ==
    LET month == MonthColumn(c.rows)
    IN  [i \in 1..Len(c.rows) |->
            LET r == c.rows[i]
            IN  [Year |-> to_numeric(r.Year),
                 Month |-> month[i],
                 Recession |-> RecessionCell(r.Recession),
                 Automobile_Sales |->
                     Fallback(c, "Automobile_Sales", NumCell(r.Automobile_Sales), 0),
                 Vehicle_Type |->
                     Fallback(c, "Vehicle_Type", r.Vehicle_Type, T_Unknown),
                 Advertising_Expenditure |->
                     Fallback(c, "Advertising_Expenditure",
                              NumCell(r.Advertising_Expenditure), 0),
                 unemployment_rate |->
                     Fallback(c, "unemployment_rate",
                              NumCell(r.unemployment_rate), NA)]]

\* years = sorted(int(y) for y in df["Year"].dropna().unique())
YearsOf(d) == SortInts({d[i].Year : i \in 1..Len(d)} \ {NA})

----------------------------------------------------------------------------
(* Figures                                                                 *)

\* mutant: an empty chart without the "No data" annotation
_empty_fig_blank(title) ==
    [kind |-> "scatter", title |-> title, annotation |-> "", data |-> <<>>]

\* _empty_fig(title): an empty scatter with the annotation "No data"
_empty_fig(title) ==
    [kind |-> "scatter", title |-> title, annotation |-> "No data",
     data |-> <<>>]

\* px.line / px.bar / px.pie / px.scatter over the rows handed to it
Chart(kind, title, data) ==
    [kind |-> kind, title |-> title, annotation |-> "", data |-> data]

\* the two plotted columns of a table
Plot(table, xcol, ycol) ==
    [i \in 1..Len(table) |-> [x |-> table[i][xcol], y |-> table[i][ycol]]]

\* the columns px.scatter reads: x, y and size, color, hover_data
ScatterPoints(rows) ==
    [i \in 1..Len(rows) |->
        [unemployment_rate |-> rows[i].unemployment_rate,
         Automobile_Sales |-> rows[i].Automobile_Sales,
         Vehicle_Type |-> rows[i].Vehicle_Type,
         Year |-> rows[i].Year,
         Month |-> rows[i].Month]]

----------------------------------------------------------------------------
(* groupby(key, as_index=False)[col]: one row per key that is not NaN,      *)
(* the keys in ascending order (sort=True, dropna=True are the defaults)   *)

Column(rows, col) == {rows[i][col] : i \in 1..Len(rows)}

RowsWith(rows, key, k) == SelectSeq(rows, LAMBDA r : r[key] = k)

YearKeys(rows) == SortInts(Column(rows, "Year") \ {NA})

TextKeys(rows, key) == SortStrs(Column(rows, key) \ {Empty})

\* groupby("Year")["Automobile_Sales"].mean()
MeanByYear(rows) ==
    LET keys == YearKeys(rows)
    IN  [i \in 1..Len(keys) |->
            [Year |-> keys[i],
             Automobile_Sales |->
                 GroupMean(RowsWith(rows, "Year", keys[i]), "Automobile_Sales")]]

\* groupby("Vehicle_Type")["Automobile_Sales"].mean()
MeanByType(rows) ==
    LET keys == TextKeys(rows, "Vehicle_Type")
    IN  [i \in 1..Len(keys) |->
            [Vehicle_Type |-> keys[i],
             Automobile_Sales |->
                 GroupMean(RowsWith(rows, "Vehicle_Type", keys[i]),
                           "Automobile_Sales")]]

\* groupby("Vehicle_Type")["Advertising_Expenditure"].sum()
AdvByType(rows) ==
    LET keys == TextKeys(rows, "Vehicle_Type")
    IN  [i \in 1..Len(keys) |->
            [Vehicle_Type |-> keys[i],
             Advertising_Expenditure |->
                 GroupSum(RowsWith(rows, "Vehicle_Type", keys[i]),
                          "Advertising_Expenditure")]]

\* groupby("Month")["Automobile_Sales"].sum()
SumByMonth(rows) ==
    LET keys == TextKeys(rows, "Month")
    IN  [i \in 1..Len(keys) |->
            [Month |-> keys[i],
             Automobile_Sales |->
                 GroupSum(RowsWith(rows, "Month", keys[i]), "Automobile_Sales")]]

\* sort_values("Month_num"): ascending, rows of equal value keep their order
RECURSIVE SortByMonthNum(_)
SortByMonthNum(t) ==
    IF Len(t) = 0 THEN <<>>
    ELSE LET i == CHOOSE i \in 1..Len(t) :
                     /\ \A j \in 1..Len(t) : t[i].Month_num <= t[j].Month_num
                     /\ \A j \in 1..(i - 1) : t[j].Month_num # t[i].Month_num
         IN  <<t[i]>> \o
             SortByMonthNum(SubSeq(t, 1, i - 1) \o SubSeq(t, i + 1, Len(t)))

\* lines 154-158: try: Month_num = Month.astype(int), sort; except: pass.
\* int() of a label that is not a number raises and leaves monthly as it was.
MonthOrder(monthly) ==
    IF \A i \in 1..Len(monthly) : IsDigits(monthly[i].Month)
    THEN SortByMonthNum(
             [i \in 1..Len(monthly) |->
                 [Month |-> monthly[i].Month,
                  Automobile_Sales |-> monthly[i].Automobile_Sales,
                  Month_num |-> DigitsValue(monthly[i].Month)]])
    ELSE monthly

\* df[df["Year"] == year_value]: a NaN year, or the value None, matches nothing
YearFilter(rows, year_value) ==
    SelectSeq(rows, LAMBDA r :
        r.Year # NA /\ year_value # None /\ r.Year = year_value)

\* mutant: the recession filter is dropped
RecessionFilter_all(rows) == rows

\* df[df["Recession"] == 1]
RecessionFilter(rows) == SelectSeq(rows, LAMBDA r : r.Recession = 1)

\* rec.dropna(subset=["unemployment_rate"])
DropNaUnemployment(rows) == SelectSeq(rows, LAMBDA r : r.unemployment_rate # NA)

----------------------------------------------------------------------------
(* 3) Callbacks                                                            *)

\* mutant: the year dropdown is never disabled
toggle_year_dropdown_stuck(report_type) ==
    <<FALSE, "Year is enabled for Yearly Statistics.">>

toggle_year_dropdown(report_type) ==
    IF report_type = YEARLY
    THEN <<FALSE, "Year is enabled for Yearly Statistics.">>
    ELSE <<TRUE, "Year is disabled for Recession Period Statistics.">>

\* mutant: the fallback picks the first year of the list
YearFallback_first(yrs, year_value) ==
    IF year_value = None /\ yrs # <<>> THEN yrs[1] ELSE year_value

\* lines 133-134
YearFallback(yrs, year_value) ==
    IF year_value = None /\ yrs # <<>> THEN yrs[Len(yrs)] ELSE year_value

\* lines 137-180
YearlyCharts(d, year_value) ==
    LET yearly == MeanByYear(d)
        fig1 == IF yearly = <<>>
                THEN _empty_fig(<<"Yearly Automobile Sales (Average)">>)
                ELSE Chart("line",
                           <<"Yearly Automobile Sales (Average over Months)">>,
                           Plot(yearly, "Year", "Automobile_Sales"))
        dff == YearFilter(d, year_value)
        monthly == MonthOrder(SumByMonth(dff))
        t2 == <<"Total Monthly Automobile Sales", year_value>>
        fig2 == IF monthly = <<>> THEN _empty_fig(t2)
                ELSE Chart("line", t2, Plot(monthly, "Month", "Automobile_Sales"))
        by_type == MeanByType(dff)
        t3 == <<"Average Vehicles Sold by Vehicle Type", year_value>>
        fig3 == IF by_type = <<>> THEN _empty_fig(t3)
                ELSE Chart("bar", t3,
                           Plot(by_type, "Vehicle_Type", "Automobile_Sales"))
        adv == AdvByType(dff)
        t4 == <<"Ad Expenditure Share by Vehicle Type", year_value>>
        fig4 == IF adv = <<>> THEN _empty_fig(t4)
                ELSE Chart("pie", t4,
                           Plot(adv, "Vehicle_Type", "Advertising_Expenditure"))
    IN  <<fig1, fig2, fig3, fig4>>

\* lines 183-223
RecessionCharts(d) ==
    LET rec == RecessionFilter(d)
        rec_yearly == MeanByYear(rec)
        t1 == <<"Avg Automobile Sales during Recession (Year-wise)">>
        fig1 == IF rec_yearly = <<>> THEN _empty_fig(t1)
                ELSE Chart("line", t1,
                           Plot(rec_yearly, "Year", "Automobile_Sales"))
        rec_type_avg == MeanByType(rec)
        t2 == <<"Avg Vehicles Sold by Vehicle Type (Recession)">>
        fig2 == IF rec_type_avg = <<>> THEN _empty_fig(t2)
                ELSE Chart("bar", t2,
                           Plot(rec_type_avg, "Vehicle_Type", "Automobile_Sales"))
        rec_adv == AdvByType(rec)
        t3 == <<"Ad Expenditure Share by Vehicle Type (Recession)">>
        fig3 == IF rec_adv = <<>> THEN _empty_fig(t3)
                ELSE Chart("pie", t3,
                           Plot(rec_adv, "Vehicle_Type", "Advertising_Expenditure"))
        rec_u == DropNaUnemployment(rec)
        fig4 == IF rec_u = <<>>
                THEN _empty_fig(<<"Unemployment vs Sales (Recession)">>)
                ELSE Chart("scatter",
                           <<"Unemployment vs Automobile Sales by Vehicle Type (Recession)">>,
                           ScatterPoints(rec_u))
    IN  <<fig1, fig2, fig3, fig4>>

\* mutant: the recession report is cut down to the selected year
update_charts_yearInRecession(d, yrs, report_type, year_value) ==
    IF report_type = YEARLY
    THEN YearlyCharts(d, YearFallback(yrs, year_value))
    ELSE RecessionCharts(YearFilter(d, YearFallback(yrs, year_value)))

\* mutant: the figures are cached per report and not per year
update_charts_cachedPerReport(d, yrs, report_type, year_value) ==
    LET new == IF report_type = YEARLY
               THEN YearlyCharts(d, YearFallback(yrs, year_value))
               ELSE RecessionCharts(d)
    IN  IF figs # <<>> /\ figs[3].kind = new[3].kind THEN figs ELSE new

\* update_charts(report_type, year_value) over the module-level df and years
update_charts(d, yrs, report_type, year_value) ==
    IF report_type = YEARLY
    THEN YearlyCharts(d, YearFallback(yrs, year_value))
    ELSE RecessionCharts(d)

----------------------------------------------------------------------------
(* The files the program is started on                                     *)

SeqsUpTo(S, n) == UNION {[1..k -> S] : k \in 0..n}

CsvRow(y, m, r, s, v, a, u) ==
    [Year |-> y, Month |-> m, Recession |-> r, Automobile_Sales |-> s,
     Vehicle_Type |-> v, Advertising_Expenditure |-> a, unemployment_rate |-> u]

\* the cell of a column the file may lack
Cell(cols, col, texts) == IF col \in cols THEN texts ELSE {Empty}

\* files for the charts: every column present, years, recession flags,
\* vehicle types (one cell empty), sales and unemployment rates vary
ChartRows ==
    {CsvRow(y, T_1, r, k[2], k[1], T_3, k[3]) :
        y \in {T_2019, T_2020, Empty}, r \in {T_0, T_1},
        k \in {<<T_A, T_10, T_5>>, <<T_A, T_25, Empty>>,
               <<T_B, T_25, T_5>>, <<Empty, T_10, T_5>>}}

ChartCsvs ==
    {[columns |-> OptionalColumns, rows |-> rs] : rs \in SeqsUpTo(ChartRows, MaxRows)}

\* files for the load: any subset of the optional columns, every kind of
\* Recession cell, present Vehicle_Type cells filled or empty
LoadRows(cols) ==
    {CsvRow(T_2019, T_1, r, s, v, a, u) :
        r \in {T_0, T_1, T_x, Empty},
        s \in Cell(cols, "Automobile_Sales", {T_10}),
        v \in Cell(cols, "Vehicle_Type", {T_A, Empty}),
        a \in Cell(cols, "Advertising_Expenditure", {T_3}),
        u \in Cell(cols, "unemployment_rate", {T_5})}

LoadCsvs ==
    UNION {{[columns |-> cols, rows |-> rs] : rs \in SeqsUpTo(LoadRows(cols), MaxRows)} :
              cols \in SUBSET OptionalColumns}

\* files for the monthly totals: month labels that are numbers or not
MonthRows ==
    {CsvRow(y, k[1], T_0, k[2], T_A, T_3, T_5) :
        y \in {T_2019, T_2020},
        k \in {<<T_1, T_10>>, <<T_1, T_25>>, <<T_2, T_10>>, <<T_10, T_10>>,
               <<T_Jan, T_25>>}}

MonthCsvs ==
    {[columns |-> OptionalColumns, rows |-> rs] : rs \in SeqsUpTo(MonthRows, MaxRows)}

\* files for the repeated runs
PureRows ==
    {CsvRow(y, T_1, r, k[2], k[1], T_3, k[3]) :
        y \in {T_2019, T_2020, Empty}, r \in {T_0, T_1},
        k \in {<<T_A, T_10, T_5>>, <<T_B, T_25, Empty>>}}

PureCsvs ==
    {[columns |-> OptionalColumns, rows |-> rs] : rs \in SeqsUpTo(PureRows, MaxRows)}

----------------------------------------------------------------------------
(* State machine                                                           *)

Callbacks == {"toggle_year_dropdown", "update_charts"}

\* after import and app.layout: the data is loaded, the dropdowns have their
\* initial values, and Dash is about to run both callbacks once
InitOn(files) ==
    /\ csv \in files
    /\ df = LoadAndClean(csv)
    /\ years = YearsOf(df)
    /\ report_dd = YEARLY
    /\ year_dd = IF years # <<>> THEN years[Len(years)] ELSE None
    /\ year_disabled = FALSE
    /\ year_help = ""
    /\ figs = <<>>
    /\ pending = Callbacks
    /\ snap = <<>>

\* the report dropdown takes another value: both callbacks have it as Input
ChangeReport(v) ==
    /\ pending = {}
    /\ v # report_dd
    /\ report_dd' = v
    /\ pending' = Callbacks
    /\ UNCHANGED <<csv, df, years, year_dd, year_disabled, year_help, figs, snap>>

\* the year input takes another value: only update_charts has it as Input
ChangeYear(y) ==
    /\ pending = {}
    /\ y # year_dd
    /\ year_dd' = y
    /\ pending' = {"update_charts"}
    /\ UNCHANGED <<csv, df, years, report_dd, year_disabled, year_help, figs, snap>>

RunToggleYearDropdown ==
    /\ "toggle_year_dropdown" \in pending
    /\ year_disabled' = toggle_year_dropdown(report_dd)[1]
    /\ year_help' = toggle_year_dropdown(report_dd)[2]
    /\ pending' = pending \ {"toggle_year_dropdown"}
    /\ UNCHANGED <<csv, df, years, report_dd, year_dd, figs, snap>>

\* mutant: the selection is cut out of df itself, not out of a copy
RunUpdateCharts_inplace ==
    /\ "update_charts" \in pending
    /\ figs' = update_charts(df, years, report_dd, year_dd)
    /\ pending' = pending \ {"update_charts"}
    /\ snap' = snap
    /\ df' = IF report_dd = YEARLY THEN YearFilter(df, YearFallback(years, year_dd))
             ELSE RecessionFilter(df)
    /\ years' = years
    /\ UNCHANGED <<csv, report_dd, year_dd, year_disabled, year_help>>

\* the history snap notes when the inputs it was taken at are run again
RunUpdateCharts ==
    /\ "update_charts" \in pending
    /\ figs' = update_charts(df, years, report_dd, year_dd)
    /\ pending' = pending \ {"update_charts"}
    /\ snap' = IF snap # <<>> /\ snap.report = report_dd /\ snap.year = year_dd
               THEN [snap EXCEPT !.rerun = TRUE] ELSE snap
    /\ df' = df
    /\ years' = years
    /\ UNCHANGED <<csv, report_dd, year_dd, year_disabled, year_help>>

\* history only: remember the result shown for the current inputs
Snapshot ==
    /\ pending = {}
    /\ snap = <<>>
    /\ snap' = [report |-> report_dd, year |-> year_dd, figs |-> figs,
                rerun |-> FALSE]
    /\ UNCHANGED <<csv, df, years, report_dd, year_dd, year_disabled,
                   year_help, figs, pending>>

Next ==
    \/ \E v \in ReportOptions : ChangeReport(v)
    \/ \E y \in YearInputs : ChangeYear(y)
    \/ RunToggleYearDropdown
    \/ RunUpdateCharts

Init == InitOn(ChartCsvs)
Spec == Init /\ [][Next]_vars

InitLoad == InitOn(LoadCsvs)
SpecLoad == InitLoad /\ [][Next]_vars

InitMonth == InitOn(MonthCsvs)
SpecMonth == InitMonth /\ [][Next]_vars

InitPure == InitOn(PureCsvs)
SpecPure == InitPure /\ [][Next \/ Snapshot]_vars

----------------------------------------------------------------------------
(* Properties                                                              *)

\* the figures on screen are those of the current inputs
Shown == figs # <<>> /\ "update_charts" \notin pending

IsNoData(f) == f.kind = "scatter" /\ f.annotation = "No data" /\ f.data = <<>>
IsChart(f, kind) == f.kind = kind /\ f.annotation = "" /\ f.data # <<>>

Rows == 1..Len(df)
PresentYears == {df[i].Year : i \in Rows} \ {NA}
MaxYearPresent == CHOOSE y \in PresentYears : \A z \in PresentYears : z <= y
EffectiveYear ==
    IF year_dd = None /\ PresentYears # {} THEN MaxYearPresent ELSE year_dd
RowsOfYear(y) == {i \in Rows : df[i].Year # NA /\ df[i].Year = y}
RecessionRows == {i \in Rows : df[i].Recession = 1}

RECURSIVE SalesOver(_)
SalesOver(I) ==
    IF I = {} THEN 0
    ELSE LET i == CHOOSE i \in I : TRUE
         IN  df[i].Automobile_Sales + SalesOver(I \ {i})

\* C1: after the load every row has a Vehicle_Type that is not null and a
\* Recession flag that is not null, whatever columns and cells the file has.
C1_NoNullAfterLoad ==
    \A i \in Rows : df[i].Vehicle_Type # Empty /\ df[i].Recession # NA

\* C2: once toggle_year_dropdown has run for the current report, the year
\* selector is disabled exactly when the report is the Recession one,
\* whatever the report was before and whatever year is selected.
C2_DisabledIsFunctionOfReport ==
    "toggle_year_dropdown" \notin pending =>
        /\ year_disabled = (report_dd = RECESSION)
        /\ (report_dd = YEARLY => year_help = "Year is enabled for Yearly Statistics.")
        /\ (report_dd = RECESSION =>
                year_help = "Year is disabled for Recession Period Statistics.")

\* the selector is enabled again for Yearly while the figures on screen are
\* still those of the Recession report it was switched away from
C2_Witness ==
    /\ "toggle_year_dropdown" \notin pending
    /\ "update_charts" \in pending
    /\ report_dd = YEARLY
    /\ ~year_disabled
    /\ figs # <<>>
    /\ figs[1].title = <<"Avg Automobile Sales during Recession (Year-wise)">>

\* C3: each slot whose aggregation has no rows shows the "No data"
\* placeholder, every other slot shows its real chart; in Yearly mode with a
\* year that has no rows, slots 2-4 are placeholders and slot 1 is the chart
\* shown for every other year.
C3_EmptySlotsArePlaceholders ==
    Shown =>
        IF report_dd = YEARLY
        THEN LET y == EffectiveYear
                 typed == {i \in RowsOfYear(y) : df[i].Vehicle_Type # Empty}
             IN  /\ IF PresentYears = {} THEN IsNoData(figs[1])
                    ELSE IsChart(figs[1], "line")
                 /\ IF RowsOfYear(y) = {} THEN IsNoData(figs[2])
                    ELSE IsChart(figs[2], "line")
                 /\ IF typed = {} THEN IsNoData(figs[3]) ELSE IsChart(figs[3], "bar")
                 /\ IF typed = {} THEN IsNoData(figs[4]) ELSE IsChart(figs[4], "pie")
                 /\ RowsOfYear(y) = {} =>
                        /\ \A k \in 2..4 : IsNoData(figs[k])
                        /\ \A z \in YearInputs :
                               figs[1] = update_charts(df, years, YEARLY, z)[1]
        ELSE /\ IF \E i \in RecessionRows : df[i].Year # NA
                THEN IsChart(figs[1], "line") ELSE IsNoData(figs[1])
             /\ IF \E i \in RecessionRows : df[i].Vehicle_Type # Empty
                THEN IsChart(figs[2], "bar") /\ IsChart(figs[3], "pie")
                ELSE IsNoData(figs[2]) /\ IsNoData(figs[3])
             /\ IF \E i \in RecessionRows : df[i].unemployment_rate # NA
                THEN IsChart(figs[4], "scatter") ELSE IsNoData(figs[4])

\* a year without rows is selected in a dataset that has rows of another year
C3_Witness ==
    /\ Shown
    /\ report_dd = YEARLY
    /\ year_dd \in {2019, 2020}
    /\ RowsOfYear(year_dd) = {}
    /\ IsChart(figs[1], "line")
    /\ \A k \in 2..4 : IsNoData(figs[k])

\* C4: with no row of Recession == 1, the Recession report shows the
\* "No data" placeholder in all four slots, for every selected year.
C4_NoRecessionRowsAllPlaceholders ==
    (Shown /\ report_dd = RECESSION /\ RecessionRows = {}) =>
        \A k \in 1..4 : IsNoData(figs[k])

\* the Recession report over rows none of which is a recession row, one of
\* them with a Recession cell that is no number
C4_Witness ==
    /\ Shown
    /\ report_dd = RECESSION
    /\ RecessionRows = {}
    /\ \E i \in 1..Len(csv.rows) : csv.rows[i].Recession = T_x
    /\ \A k \in 1..4 : IsNoData(figs[k])

\* C5: for a selected year Y that is present, slot 3 of the Yearly report
\* has one row per Vehicle_Type value among the rows of year Y, and each
\* row's value is the arithmetic mean of Automobile_Sales of that subgroup.
C5_MeanByTypeOfYear ==
    (Shown /\ report_dd = YEARLY /\ year_dd \in PresentYears) =>
        LET Y == year_dd
            types == {df[i].Vehicle_Type : i \in RowsOfYear(Y)} \ {Empty}
            tbl == figs[3].data
            group(t) == {i \in RowsOfYear(Y) : df[i].Vehicle_Type = t}
        IN  /\ {tbl[k].x : k \in 1..Len(tbl)} = types
            /\ Len(tbl) = Cardinality(types)
            /\ \A k \in 1..Len(tbl) :
                   /\ tbl[k].y.den > 0
                   /\ tbl[k].y.num * Cardinality(group(tbl[k].x))
                          = tbl[k].y.den * SalesOver(group(tbl[k].x))

\* a subgroup of two rows whose mean is not one of the two values
C5_Witness ==
    /\ Shown
    /\ report_dd = YEARLY
    /\ year_dd \in PresentYears
    /\ Len(figs[3].data) = 1
    /\ figs[3].data[1].y = [num |-> 35, den |-> 2]

\* the Month labels of a set of rows, each once, in the order of the rows
RECURSIVE FirstSeen(_, _)
FirstSeen(i, seen) ==
    IF i > Len(df) THEN <<>>
    ELSE IF df[i].Year # NA /\ df[i].Year = EffectiveYear
            /\ df[i].Month \notin seen
    THEN <<df[i].Month>> \o FirstSeen(i + 1, seen \cup {df[i].Month})
    ELSE FirstSeen(i + 1, seen)

MonthLabels == {df[i].Month : i \in RowsOfYear(EffectiveYear)}
MonthTable == figs[2].data

\* one row per Month label of the selected year, holding the sum of its sales
MonthTotals ==
    /\ {MonthTable[k].x : k \in 1..Len(MonthTable)} = MonthLabels
    /\ Len(MonthTable) = Cardinality(MonthLabels)
    /\ \A k \in 1..Len(MonthTable) :
           MonthTable[k].y =
               [num |-> SalesOver({i \in RowsOfYear(EffectiveYear) :
                                      df[i].Month = MonthTable[k].x}),
                den |-> 1]

NumericMonthOrder ==
    \A k \in 1..(Len(MonthTable) - 1) :
        DigitsValue(MonthTable[k].x) < DigitsValue(MonthTable[k + 1].x)

MonthlyStringOrderFallback ==
    (Shown /\ report_dd = YEARLY) =>
        /\ MonthTotals
        /\ IF \A l \in MonthLabels : IsDigits(l)
           THEN NumericMonthOrder
           ELSE \A k \in 1..(Len(MonthTable) - 1) :
                    StrLess(MonthTable[k].x, MonthTable[k + 1].x)

\* a label that is no number comes first in the dataset and last in the table
MonthlyFallbackReached ==
    /\ Shown
    /\ report_dd = YEARLY
    /\ Len(MonthTable) = 2
    /\ ~IsDigits(MonthTable[2].x)
    /\ FirstSeen(1, {}) = <<MonthTable[2].x, MonthTable[1].x>>

\* C7: the Recession report does not depend on the selected year: its four
\* figures are those of every other year input, and those computed from the
\* rows of Recession == 1 alone.
C7_RecessionIgnoresYear ==
    (Shown /\ report_dd = RECESSION) =>
        LET rec == SelectSeq(df, LAMBDA r : r.Recession = 1)
        IN  /\ \A y \in YearInputs : figs = update_charts(df, years, RECESSION, y)
            /\ figs = update_charts(rec, YearsOf(rec), RECESSION, year_dd)

\* the Recession report with recession rows of a year that is not selected
C7_Witness ==
    /\ Shown
    /\ report_dd = RECESSION
    /\ year_dd \in PresentYears
    /\ \E i \in RecessionRows : df[i].Year # NA /\ df[i].Year # year_dd
    /\ \E i \in Rows : df[i].Recession # 1
    /\ IsChart(figs[1], "line")

\* C8: running update_charts again on the same dataset and the same inputs
\* gives the same four figures, whatever was selected in between.
C8_SameInputsSameFigures ==
    (snap # <<>> /\ Shown /\ snap.report = report_dd /\ snap.year = year_dd) =>
        figs = snap.figs

\* the inputs of the remembered result were run again after other inputs
C8_Witness ==
    /\ snap # <<>>
    /\ snap.rerun
    /\ Shown
    /\ snap.report = report_dd
    /\ snap.year = year_dd
    /\ figs = snap.figs
    /\ \E k \in 1..4 : ~IsNoData(figs[k])

\* C9: the year selector starts at the greatest year present; a Yearly run
\* with no year gives the figures of the greatest year present, and with no
\* year in the dataset the year stays None and slots 2-4 are placeholders.
C9_YearFallback ==
    /\ figs = <<>> =>
           year_dd = IF PresentYears = {} THEN None ELSE MaxYearPresent
    /\ (Shown /\ report_dd = YEARLY /\ year_dd = None) =>
           IF PresentYears # {}
           THEN figs = update_charts(df, years, YEARLY, MaxYearPresent)
           ELSE \A k \in 2..4 : IsNoData(figs[k]) /\ figs[k].title[2] = None

\* a Yearly run with no year over a dataset of two years
C9_Witness ==
    /\ Shown
    /\ report_dd = YEARLY
    /\ year_dd = None
    /\ Cardinality(PresentYears) = 2
    /\ IsChart(figs[2], "line")
    /\ figs[2].title[2] = MaxYearPresent

\* C10: no callback changes the dataset or the list of years.
C10_DatasetImmutable ==
    [][df' = df /\ years' = years /\ csv' = csv]_vars

\* both callbacks have run for a year and a report that were both changed
C10_Witness ==
    /\ pending = {}
    /\ report_dd = RECESSION
    /\ year_disabled
    /\ Len(df) = MaxRows
    /\ year_dd = None
    /\ df = LoadAndClean(csv)
    /\ years = YearsOf(df)

====
